---- MODULE Spec2Model ----
(***************************************************************************)
(* nit: a picker of nix flake templates (src/main.rs).                     *)
(*                                                                         *)
(* main() loads the catalog (load_cache, load_flake), wires an ltrait      *)
(* Launcher (one source, two sorters, two actions, a TUI) and runs it.     *)
(* The model keeps the three files the program reads and writes            *)
(* (config.toml, cache.json, the frecency store), the value of main's      *)
(* locals and the position of main.                                        *)
(*                                                                         *)
(* The ltrait crates are dependencies; the model takes from them only     *)
(* what the calls in main show: a sorter orders the items of the source    *)
(* and removes none, the sorters apply in the order of registration, the   *)
(* actions run in the order of registration on the committed item, and     *)
(* the Frecency action raises the score of its ident by its bonus.  Decay  *)
(* over time and the matcher's exact scores are inside the crates and are  *)
(* not modelled: no time passes in the model, and the matcher's score      *)
(* only tells a match from a miss and a prefix match from another match.   *)
(*                                                                         *)
(* Strings are sequences of one-character strings, so that format!() is    *)
(* concatenation and the matcher can look inside them.  An Option is a     *)
(* sequence of length 0 (None) or 1 (Some).                                *)
(***************************************************************************)
EXTENDS Integers, Sequences, FiniteSets, TLC

VARIABLES
    config,       \* ~/.config/nix-nit/config.toml: [exists, template]
    cacheFile,    \* ~/.cache/nix-nit/cache.json:   [exists, data]
    storeFile,    \* persisted frecency store of type_ident "nix-nit": ident -> score
    pc,           \* position of main: "exited" (not running), "loaded", "picker"
    runs,         \* number of times the program was started
    status,       \* result of the last run of main: "none", "ok", "err"
    re_cache,     \* args.re_cache of the current run
    template,     \* let template = load_cache(args.re_cache).await?
    sorterStore,  \* the Frecency instance given to add_sorter
    actionStore,  \* the Frecency instance given to add_action
    input,        \* the query typed in the TUI
    view,         \* the ranked view: indices into template, best first
    chosen,       \* the item committed in the last run: None or Some(Template)
    nixInits,     \* number of `nix flake init` invocations of the last run
    nixFailed,    \* the `nix flake init` of the last run reported failure
    cacheBefore,  \* cache.json as load_cache found it
    configRead,   \* load_cache read config.toml in the current run
    nixShow,      \* what each load_flake of the current run returned, in call order
    imported,     \* for each config entry, the items load_cache extended res with
    lastCollected,\* the list the last collecting load_cache returned
    storeBefore   \* storeFile and the action's lookup of the chosen item at commit

vars == <<config, cacheFile, storeFile, pc, runs, status, re_cache, template,
          sorterStore, actionStore, input, view, chosen, nixInits, nixFailed,
          cacheBefore, configRead, nixShow, imported, lastCollected, storeBefore>>

(***************************************************************************)
(* Bounds.                                                                 *)
(***************************************************************************)
MaxRuns == 2        \* program starts per behaviour
MaxQueryLen == 1    \* characters typed into the picker

(***************************************************************************)
(* Option and sequence helpers.                                            *)
(***************************************************************************)
None == <<>>
Some(x) == <<x>>

RECURSIVE Flatten(_)
Flatten(ss) == IF ss = <<>> THEN <<>> ELSE Head(ss) \o Flatten(Tail(ss))

Range(s) == {s[i] : i \in 1..Len(s)}

(***************************************************************************)
(* The world outside: what `nix flake show <uri> --json` prints.           *)
(***************************************************************************)
UriA == <<"a">>
UriAB == <<"a", "-", "b">>
NameBC == <<"b", "-", "c">>
NameC == <<"c">>
NameDefault == <<"d", "e", "f", "a", "u", "l", "t">>
FlakeName == <<"n">>

\* A Template as serde reads it out of the JSON, before load_flake names it.
RawTemplate(desc) ==
    [name |-> <<>>, flake_info |-> [name |-> None, uri |-> <<>>], description |-> desc]

\* FlakeTemplates: defaultTemplate, and the keys and values of "templates"
\* in the order of the JSON text.
FlakeShow(uri) ==
    IF uri = UriA
    THEN [default_template |-> RawTemplate(<<"0">>),
          templates |-> << <<NameBC, RawTemplate(<<"1">>)>>,
                           <<NameC, RawTemplate(<<"2">>)>> >>]
    ELSE [default_template |-> RawTemplate(<<"3">>),
          templates |-> << <<NameC, RawTemplate(<<"4">>)>> >>]

\* The orders in which a std HashMap<String, Template> of these entries can
\* be iterated: any.
HashMapOrders(kvs) ==
    {[i \in 1..Len(kvs) |-> kvs[p[i]]] : p \in Permutations(1..Len(kvs))}

(***************************************************************************)
(* load_flake                                                              *)
(***************************************************************************)
Ok(v) == [ok |-> TRUE, val |-> v]
Err == [ok |-> FALSE, val |-> <<>>]

\* name and flake_info.uri are assigned, the rest is what the JSON gave.
SetNameUri(t, name, uri) ==
    [t EXCEPT !.name = name, !.flake_info.uri = uri]

\* load_flake(flake_uri) once nix succeeded and `iter` is the order in which
\* flake.templates.into_iter() yields.
load_flake(flake_uri, iter) ==
    <<SetNameUri(FlakeShow(flake_uri).default_template, NameDefault, flake_uri)>>
    \o [i \in 1..Len(iter) |-> SetNameUri(iter[i][2], iter[i][1], flake_uri)]

\* Every result load_flake(flake_uri) can have: Err when nix fails.
LoadFlakeResults(flake_uri) ==
    {Err} \cup {Ok(load_flake(flake_uri, iter)) :
                    iter \in HashMapOrders(FlakeShow(flake_uri).templates)}

(***************************************************************************)
(* load_cache                                                              *)
(***************************************************************************)
\* A filter that keeps every value.
FilterTemplates_KeepAll(data, fil) == data

\* data.into_iter().filter(|value| fil.contains(&value.name)).collect()
FilterTemplates(data, fil) == SelectSeq(data, LAMBDA value : value.name \in Range(fil))

\* for i in data.iter_mut() { i.flake_info.name = Some(name.clone()) }
SetFlakeName(data, name) ==
    [i \in 1..Len(data) |-> [data[i] EXCEPT !.flake_info.name = Some(name)]]

\* The body of `for flake in config.template` after load_flake returned data.
ImportFlake(flake, data) ==
    LET filtered == IF flake.templates # None
                    THEN FilterTemplates(data, flake.templates[1])
                    ELSE data
    IN IF flake.name # None THEN SetFlakeName(filtered, flake.name[1]) ELSE filtered

\* The number of load_flake calls the loop makes: it stops at the first Err.
RECURSIVE CallsMade(_)
CallsMade(outs) ==
    IF outs = <<>> THEN 0
    ELSE IF ~Head(outs).ok THEN 1 ELSE 1 + CallsMade(Tail(outs))

\* serde_json::to_string(&Cache { data }) and serde_json::from_str: a
\* Template is written as the values of its fields in declaration order, a
\* None as null and a Some as the string.
SerializeTemplate(t) ==
    <<t.name,
      <<IF t.flake_info.name = None THEN <<"null">> ELSE <<"str", t.flake_info.name[1]>>,
        t.flake_info.uri>>,
      t.description>>

DeserializeTemplate(j) ==
    [name |-> j[1],
     flake_info |-> [name |-> IF j[2][1][1] = "null" THEN None ELSE Some(j[2][1][2]),
                     uri |-> j[2][2]],
     description |-> j[3]]

\* A writer that loses flake_info.name.
to_string_NoFlakeName(data) ==
    [i \in 1..Len(data) |->
        SerializeTemplate([data[i] EXCEPT !.flake_info.name = None])]

to_string(data) == [i \in 1..Len(data) |-> SerializeTemplate(data[i])]

from_str(json) == [i \in 1..Len(json) |-> DeserializeTemplate(json[i])]

(***************************************************************************)
(* The config files the user can write.                                    *)
(***************************************************************************)
EntryAll == [name |-> None, uri |-> UriA, templates |-> None]
EntryNamedSome == [name |-> Some(FlakeName), uri |-> UriA,
                   templates |-> Some(<<NameBC, NameDefault>>)]
EntryTwice == [name |-> None, uri |-> UriAB, templates |-> Some(<<NameC, NameC>>)]
EntryNamedAll == [name |-> Some(FlakeName), uri |-> UriAB, templates |-> None]

Configs ==
    { <<EntryAll>>,
      <<EntryNamedSome, EntryTwice>>,
      <<EntryNamedAll, EntryAll>> }

NoFile == [exists |-> FALSE, data |-> <<>>]
NoConfig == [exists |-> FALSE, template |-> <<>>]
ConfigFiles == {NoConfig} \cup {[exists |-> TRUE, template |-> c] : c \in Configs}
EmptyStore == [x \in {} |-> 0]
NoCommit == [file |-> EmptyStore, score |-> 0]

Init ==
    /\ config \in ConfigFiles
    /\ cacheFile = NoFile
    /\ storeFile = EmptyStore
    /\ pc = "exited"
    /\ runs = 0
    /\ status = "none"
    /\ re_cache = FALSE
    /\ template = <<>>
    /\ sorterStore = EmptyStore
    /\ actionStore = EmptyStore
    /\ input = <<>>
    /\ view = <<>>
    /\ chosen = None
    /\ nixInits = 0
    /\ nixFailed = FALSE
    /\ cacheBefore = NoFile
    /\ configRead = FALSE
    /\ nixShow = <<>>
    /\ imported = <<>>
    /\ lastCollected = <<>>
    /\ storeBefore = NoCommit

\* The user rewrites or removes config.toml between two runs.
EditConfig ==
    /\ pc = "exited"
    /\ runs < MaxRuns
    /\ \E c \in ConfigFiles :
          /\ c # config
          /\ config' = c
    /\ UNCHANGED <<cacheFile, storeFile, pc, runs, status, re_cache, template,
                   sorterStore, actionStore, input, view, chosen, nixInits, nixFailed,
                   cacheBefore, configRead, nixShow, imported, lastCollected, storeBefore>>

\* main returns: the process ends and its locals are gone.
ExitWith(st) ==
    /\ pc' = "exited"
    /\ status' = st
    /\ re_cache' = FALSE
    /\ template' = <<>>
    /\ sorterStore' = EmptyStore
    /\ actionStore' = EmptyStore
    /\ input' = <<>>
    /\ view' = <<>>
    /\ cacheBefore' = NoFile
    /\ configRead' = FALSE
    /\ nixShow' = <<>>
    /\ imported' = <<>>

\* load_cache returns Ok(res).
Loaded(rc, res, read, shown, datas) ==
    /\ pc' = "loaded"
    /\ re_cache' = rc
    /\ template' = res
    /\ cacheBefore' = cacheFile
    /\ configRead' = read
    /\ nixShow' = shown
    /\ imported' = datas
    /\ UNCHANGED <<status, sorterStore, actionStore, input, view>>

\* The program is started: main up to
\* `let template = load_cache(args.re_cache).await?`.
LoadCache ==
    /\ pc = "exited"
    /\ runs < MaxRuns
    /\ runs' = runs + 1
    /\ chosen' = None
    /\ nixInits' = 0
    /\ nixFailed' = FALSE
    /\ storeBefore' = NoCommit
    /\ \E rc \in BOOLEAN :
          IF rc \/ ~cacheFile.exists
          THEN IF ~config.exists
               THEN \* ensure!(config_path.exists(), "Couldn't find a config")
                    /\ ExitWith("err")
                    /\ UNCHANGED <<cacheFile, lastCollected>>
               ELSE \E outs \in [1..Len(config.template) ->
                                   UNION {LoadFlakeResults(u) : u \in {UriA, UriAB}}] :
                       /\ \A i \in 1..Len(outs) :
                             outs[i] \in LoadFlakeResults(config.template[i].uri)
                       /\ LET n == CallsMade(outs)
                              made == SubSeq(outs, 1, n)
                              datas == [i \in 1..n |->
                                          ImportFlake(config.template[i], made[i].val)]
                              res == Flatten(datas)
                          IN IF \E i \in 1..n : ~made[i].ok
                             THEN \* load_flake(&flake.uri).await?
                                  /\ ExitWith("err")
                                  /\ UNCHANGED <<cacheFile, lastCollected>>
                             ELSE /\ cacheFile' = [exists |-> TRUE, data |-> to_string(res)]
                                  /\ lastCollected' = res
                                  /\ Loaded(rc, res, TRUE, made, datas)
          ELSE /\ Loaded(rc, from_str(cacheFile.data), FALSE, <<>>, <<>>)
               /\ UNCHANGED <<cacheFile, lastCollected>>
    /\ UNCHANGED <<config, storeFile>>

(***************************************************************************)
(* The Launcher main builds (lines 49-132).                                *)
(***************************************************************************)
Bonus == 15

\* add_sorter(Frecency, |c| Context { ident: format!("{}-{}", uri, name), bonus })
SorterIdent(c) == c.flake_info.uri \o <<"-">> \o c.name

\* add_action(Frecency, |c| Context { ident: format!("{}-{}", uri, name), bonus })
ActionIdent(c) == c.flake_info.uri \o <<"-">> \o c.name

\* add_sorter(NucleoMatcher, |c| Context { match_string: format!("{}{}#{}", ..) })
MatchString(c) ==
    (IF c.flake_info.name # None THEN c.flake_info.name[1] \o <<" ">> ELSE <<>>)
    \o c.flake_info.uri \o <<"#">> \o c.name

\* The score a Frecency instance holds for an identity, 0 when it has none.
lookup(store, ident) == IF ident \in DOMAIN store THEN store[ident] ELSE 0

\* The Frecency action on Context { ident, bonus }: the score of ident is
\* raised by bonus.
bump(store, ident, bonus) ==
    [x \in DOMAIN store \cup {ident} |-> IF x = ident THEN lookup(store, ident) + bonus
                                           ELSE store[x]]

\* The matcher: the characters of the query occur in the candidate in order.
RECURSIVE FuzzyMatches(_, _)
FuzzyMatches(query, s) ==
    IF query = <<>> THEN TRUE
    ELSE IF s = <<>> THEN FALSE
    ELSE IF Head(query) = Head(s) THEN FuzzyMatches(Tail(query), Tail(s))
    ELSE FuzzyMatches(query, Tail(s))

\* The matcher's score as the sorter uses it: 0 without a match, higher when
\* the candidate starts with the query.
FuzzyScore(query, s) ==
    IF ~FuzzyMatches(query, s) THEN 0
    ELSE IF Len(query) <= Len(s) /\ SubSeq(s, 1, Len(query)) = query THEN 2
    ELSE 1

\* The two registered sorters, the Frecency sorter first: item l is ranked
\* strictly before item r.
RankedBefore(store, query, l, r) ==
    LET fl == lookup(store, SorterIdent(l))
        fr == lookup(store, SorterIdent(r))
    IN \/ fl > fr
       \/ /\ fl = fr
          /\ FuzzyScore(query, MatchString(l)) > FuzzyScore(query, MatchString(r))

\* The view the launcher hands to the UI: main registers sorters only and no
\* filter, so every item of the source is in it.
RECURSIVE InsertRanked(_, _, _, _, _)
InsertRanked(sorted, i, items, store, query) ==
    IF sorted = <<>> THEN <<i>>
    ELSE IF RankedBefore(store, query, items[i], items[Head(sorted)])
         THEN <<i>> \o sorted
         ELSE <<Head(sorted)>> \o InsertRanked(Tail(sorted), i, items, store, query)

RECURSIVE RankUpTo(_, _, _, _)
RankUpTo(n, items, store, query) ==
    IF n = 0 THEN <<>>
    ELSE InsertRanked(RankUpTo(n - 1, items, store, query), n, items, store, query)

Rank(items, store, query) == RankUpTo(Len(items), items, store, query)

QueryChars == {"a", "c", "z"}

\* main from `let frecency_config` to the first frame of launcher.run():
\* both Frecency instances read the persisted store.
BuildLauncher ==
    /\ pc = "loaded"
    /\ sorterStore' = storeFile
    /\ actionStore' = storeFile
    /\ input' = <<>>
    /\ view' = Rank(template, storeFile, <<>>)
    /\ pc' = "picker"
    /\ UNCHANGED <<config, cacheFile, storeFile, runs, status, re_cache, template,
                   chosen, nixInits, nixFailed,
                   cacheBefore, configRead, nixShow, imported, lastCollected, storeBefore>>

\* The user types a character: the view is ranked again for the new query.
Type ==
    /\ pc = "picker"
    /\ Len(input) < MaxQueryLen
    /\ \E ch \in QueryChars :
          /\ input' = Append(input, ch)
          /\ view' = Rank(template, sorterStore, input')
    /\ UNCHANGED <<config, cacheFile, storeFile, pc, runs, status, re_cache, template,
                   sorterStore, actionStore, chosen, nixInits, nixFailed,
                   cacheBefore, configRead, nixShow, imported, lastCollected, storeBefore>>

\* The user leaves the picker without a choice: launcher.run() returns Ok.
Cancel ==
    /\ pc = "picker"
    /\ ExitWith("ok")
    /\ UNCHANGED <<config, cacheFile, storeFile, runs, chosen, nixInits, nixFailed,
                   lastCollected, storeBefore>>

\* The user commits the k-th item of the view.  The actions run in the order
\* main registered them: the Frecency action (bump and persist), then the
\* ClosureAction (`nix flake init -t uri#name`), whose failure ensure!()
\* turns into the error main returns.
Commit ==
    /\ pc = "picker"
    /\ \E k \in 1..Len(view) :
          LET t == template[view[k]]
              bumped == bump(actionStore, ActionIdent(t), Bonus)
          IN /\ chosen' = Some(t)
             /\ storeBefore' = [file |-> storeFile,
                                score |-> lookup(actionStore, ActionIdent(t))]
             /\ storeFile' = bumped
    /\ nixInits' = nixInits + 1
    /\ \E success \in BOOLEAN :
          /\ nixFailed' = ~success
          /\ ExitWith(IF success THEN "ok" ELSE "err")
    /\ UNCHANGED <<config, cacheFile, runs, lastCollected>>

Next ==
    \/ EditConfig
    \/ LoadCache
    \/ BuildLauncher
    \/ Type
    \/ Cancel
    \/ Commit

Spec == Init /\ [][Next]_vars

(***************************************************************************)
(* Properties.                                                             *)
(***************************************************************************)
\* load_cache returned Ok in the current run.
Returned == pc # "exited"

\* C1: a commit whose `nix flake init` fails leaves the persisted store as
\* it was and the score of the committed item unchanged.
C1_FailedCommitNotRewarded ==
    (pc = "exited" /\ nixFailed) =>
        /\ storeFile = storeBefore.file
        /\ lookup(storeFile, ActionIdent(chosen[1])) = storeBefore.score

\* C4: an item whose match string does not match the query is never in the
\* ranked view.
C4_OnlyMatchesInView ==
    pc = "picker" =>
        \A k \in 1..Len(view) : FuzzyMatches(input, MatchString(template[view[k]]))

Weights == 1..3

CombinedScore(i, wr, wf) ==
    wr * lookup(sorterStore, SorterIdent(template[i]))
    + wf * FuzzyScore(input, MatchString(template[i]))

\* C5: the ranked view holds exactly the matching items, descending by a
\* weighted sum of recency and fuzzy score, items of equal sum in catalog
\* order.
C5_ViewSortedByCombinedScore ==
    pc = "picker" =>
        LET matching == {i \in 1..Len(template) :
                            FuzzyMatches(input, MatchString(template[i]))}
        IN /\ Range(view) = matching
           /\ Len(view) = Cardinality(matching)
           /\ \E wr \in Weights, wf \in Weights :
                \A k \in 1..Len(view), l \in 1..Len(view) :
                    k < l =>
                        \/ CombinedScore(view[k], wr, wf) > CombinedScore(view[l], wr, wf)
                        \/ /\ CombinedScore(view[k], wr, wf) = CombinedScore(view[l], wr, wf)
                           /\ view[k] < view[l]

\* C8: without --re-cache and with a cache file, load_cache returns the
\* cached list, reads neither the config nor a flake and leaves the cache
\* file alone; otherwise it collects from the config and writes the list it
\* returns, which is the list a later load_cache(false) returns.
C8_LoadCache ==
    Returned =>
        IF ~re_cache /\ cacheBefore.exists
        THEN /\ template = from_str(cacheBefore.data)
             /\ template = lastCollected
             /\ ~configRead
             /\ nixShow = <<>>
             /\ cacheFile = cacheBefore
        ELSE /\ configRead
             /\ Len(nixShow) = Len(config.template)
             /\ \A i \in 1..Len(nixShow) : nixShow[i].ok
             /\ template = Flatten(imported)
             /\ cacheFile.exists
             /\ from_str(cacheFile.data) = template
             /\ lastCollected = template

\* The cached list is returned although config.toml is gone.
C8_Witness ==
    /\ Returned
    /\ ~re_cache
    /\ cacheBefore.exists
    /\ ~config.exists
    /\ template # <<>>

\* The j-th smallest element of a set of numbers.
Nth(idx, j) == CHOOSE k \in idx : Cardinality({m \in idx : m <= k}) = j

\* data is the items of shown that the entry asks for, in the order of
\* shown, each with the entry's name when it has one.
ImportsExactly(flake, shown, data) ==
    LET keep == {k \in 1..Len(shown) :
                    \/ flake.templates = None
                    \/ shown[k].name \in Range(flake.templates[1])}
    IN /\ Len(data) = Cardinality(keep)
       /\ \A j \in 1..Len(data) :
            LET t == shown[Nth(keep, j)]
            IN /\ data[j].name = t.name
               /\ data[j].description = t.description
               /\ data[j].flake_info.uri = t.flake_info.uri
               /\ flake.name # None => data[j].flake_info.name = flake.name

\* The templates of a flake in the order `nix flake show` prints them.
FlakeOrder(uri) == load_flake(uri, FlakeShow(uri).templates)

C10_IdentityPerItem ==
    pc = "picker" =>
        \A i \in 1..Len(template), j \in 1..Len(template) :
            /\ SorterIdent(template[i]) = ActionIdent(template[i])
            /\ (template[i].flake_info.uri # template[j].flake_info.uri
                \/ template[i].name # template[j].name)
               => ActionIdent(template[i]) # ActionIdent(template[j])
====
